---- MODULE Spec2Model ----
(***************************************************************************)
(* A model of main.py of lib-eshia-scraper: page identity and URL          *)
(* canonicalization, the markup-to-text extraction state machine           *)
(* (EshiaPageParser), the link-based pagination functions, fetch_html's    *)
(* retry loop, crawl_book's loop and main's exit path.                     *)
(*                                                                         *)
(* Strings are sequences of one-character strings, so that splitting,      *)
(* stripping, parsing and re-assembling are computed, not assumed.         *)
(***************************************************************************)
EXTENDS Integers, Sequences, FiniteSets, TLC

VARIABLES
    url_in,        \* SpecUrl: the URL under test (a string)
    url_other,     \* SpecUrl: a second URL, a decorated variant of the same base
    url_out,       \* SpecUrl: results of the last operation applied
    pg,            \* SpecPaging: current url/ref, href list and the two results
    parser,        \* SpecParser: the EshiaPageParser object's fields
    fed,           \* SpecParser: the events fed so far (history)
    crawl          \* SpecCrawl: main()/crawl_book()/fetch_html() locals and position

vars == <<url_in, url_other, url_out, pg, parser, fed, crawl>>

(***************************************************************************)
(* Bounds of the model.                                                    *)
(***************************************************************************)
MaxHrefs == 3          \* length of a hyperlink list given to the pagination functions
MaxExtractEvents == 10 \* events fed to one extraction pass, paragraph/break streams
MaxFootnoteEvents == 7 \* events fed to one extraction pass, footnote streams
MaxLinkEvents == 6     \* events fed to one extraction pass, hyperlink streams
MaxPagesCap == 4       \* largest --max-pages value explored
MaxRetries == 3        \* largest --retries value explored
MaxDoc == 3            \* longest linear synthetic document
MaxSuppressEvents == 7 \* events fed to one traced pass, suppression streams
MaxBufferEvents == 6   \* events fed to one traced pass, buffer streams

(***************************************************************************)
(* String helpers (Python str methods used by main.py).                    *)
(***************************************************************************)
Digits == {"0", "1", "2", "3", "4", "5", "6", "7", "8", "9"}

DigitVal(c) ==
    CASE c = "0" -> 0 [] c = "1" -> 1 [] c = "2" -> 2 [] c = "3" -> 3
      [] c = "4" -> 4 [] c = "5" -> 5 [] c = "6" -> 6 [] c = "7" -> 7
      [] c = "8" -> 8 [] c = "9" -> 9

\* str.isspace() characters of the modelled alphabet (regex \s, str.split()).
Whitespace == {" ", "\n", "\t"}

\* int(s) for a non-empty string of decimal digits.
RECURSIVE StrToInt(_)
StrToInt(s) ==
    IF s = <<>> THEN 0
    ELSE 10 * StrToInt(SubSeq(s, 1, Len(s) - 1)) + DigitVal(s[Len(s)])

AllDigits(s) == s # <<>> /\ \A i \in 1..Len(s) : s[i] \in Digits

\* s.rstrip(c)
RECURSIVE RStrip(_, _)
RStrip(s, c) ==
    IF s # <<>> /\ s[Len(s)] = c THEN RStrip(SubSeq(s, 1, Len(s) - 1), c) ELSE s

\* s.lstrip(c)
RECURSIVE LStrip(_, _)
LStrip(s, c) ==
    IF s # <<>> /\ s[1] = c THEN LStrip(Tail(s), c) ELSE s

\* s.endswith(c) for a one-character c
EndsWith(s, c) == s # <<>> /\ s[Len(s)] = c

\* s.startswith(p)
StartsWith(s, p) == Len(s) >= Len(p) /\ SubSeq(s, 1, Len(p)) = p

\* s.find(c): the first index (1-based) of character c in s, 0 when absent.
Find(s, c) ==
    IF \E i \in 1..Len(s) : s[i] = c
    THEN CHOOSE i \in 1..Len(s) : s[i] = c /\ \A j \in 1..(i - 1) : s[j] # c
    ELSE 0

\* s.rfind(c): the last index of character c in s, 0 when absent.
RFind(s, c) ==
    IF \E i \in 1..Len(s) : s[i] = c
    THEN CHOOSE i \in 1..Len(s) : s[i] = c /\ \A j \in (i + 1)..Len(s) : s[j] # c
    ELSE 0

\* p in s (substring test)
Contains(s, p) ==
    \E i \in 1..(Len(s) - Len(p) + 1) : SubSeq(s, i, i + Len(p) - 1) = p

\* s.split(c): the fields between occurrences of c (always at least one field).
RECURSIVE Split(_, _)
Split(s, c) ==
    LET i == Find(s, c)
    IN  IF i = 0 THEN <<s>>
        ELSE <<SubSeq(s, 1, i - 1)>> \o Split(SubSeq(s, i + 1, Len(s)), c)

\* c.join(parts)
RECURSIVE Join(_, _)
Join(parts, c) ==
    IF parts = <<>> THEN <<>>
    ELSE IF Len(parts) = 1 THEN parts[1]
    ELSE parts[1] \o <<c>> \o Join(Tail(parts), c)

\* "".join(parts)
RECURSIVE Concat(_)
Concat(parts) == IF parts = <<>> THEN <<>> ELSE Head(parts) \o Concat(Tail(parts))

\* s.lower() on the letters of the modelled alphabet.
LowerChar(c) ==
    CASE c = "F" -> "f" [] c = "T" -> "t" [] c = "N" -> "n" [] c = "H" -> "h"
      [] c = "P" -> "p" [] OTHER -> c

Lower(s) == [i \in 1..Len(s) |-> LowerChar(s[i])]

(***************************************************************************)
(* urllib.parse, as far as main.py uses it (CPython 3.11 semantics).       *)
(* A parsed URL is a record of its six components.                         *)
(***************************************************************************)
Letters ==
    {"a", "b", "c", "d", "e", "f", "g", "h", "i", "j", "k", "l", "m", "n", "o",
     "p", "q", "r", "s", "t", "u", "v", "w", "x", "y", "z",
     "F", "T", "N", "H", "P"}

\* urllib.parse.scheme_chars
SchemeChars == Letters \cup Digits \cup {"+", "-", "."}

SchemeHttp == <<"h", "t", "t", "p">>
SchemeHttps == <<"h", "t", "t", "p", "s">>

\* urllib.parse.uses_relative, uses_netloc, uses_params restricted to the
\* schemes the modelled alphabet can spell out in the inputs: "", http, https.
UsesRelative == {<<>>, SchemeHttp, SchemeHttps}
UsesNetloc == {<<>>, SchemeHttp, SchemeHttps}
UsesParams == {<<>>, SchemeHttp, SchemeHttps}

\* The smallest index >= from at which s holds one of the characters cs,
\* Len(s) + 1 when there is none (urllib.parse._splitnetloc's delim).
FirstOf(s, cs, from) ==
    IF \E i \in from..Len(s) : s[i] \in cs
    THEN CHOOSE i \in from..Len(s) :
            s[i] \in cs /\ \A j \in from..(i - 1) : s[j] \notin cs
    ELSE Len(s) + 1

\* urllib.parse._splitparams(url) -> <<url, params>>
SplitParamsAt(path, i) ==
    IF i = 0 THEN <<path, <<>>>>
    ELSE <<SubSeq(path, 1, i - 1), SubSeq(path, i + 1, Len(path))>>

SplitParams(path) ==
    IF RFind(path, "/") > 0
    THEN SplitParamsAt(path,
            IF FirstOf(path, {";"}, RFind(path, "/")) > Len(path)
            THEN 0 ELSE FirstOf(path, {";"}, RFind(path, "/")))
    ELSE <<SubSeq(path, 1, Find(path, ";") - 1),
           SubSeq(path, Find(path, ";") + 1, Len(path))>>

\* s.split(c, 1), as the pair (before, after); after is "" when c is absent.
SplitOnce(s, c) ==
    IF Find(s, c) > 0
    THEN <<SubSeq(s, 1, Find(s, c) - 1), SubSeq(s, Find(s, c) + 1, Len(s))>>
    ELSE <<s, <<>>>>

\* urlsplit, the scheme: (scheme, rest of the url).
HasScheme(url, colon) ==
    /\ colon > 1
    /\ url[1] \in Letters
    /\ \A k \in 1..(colon - 1) : url[k] \in SchemeChars

SplitScheme(url, default) ==
    IF HasScheme(url, Find(url, ":"))
    THEN <<Lower(SubSeq(url, 1, Find(url, ":") - 1)),
           SubSeq(url, Find(url, ":") + 1, Len(url))>>
    ELSE <<default, url>>

\* The value of an expression of string type when it raises ValueError.
ValueError == <<"ValueError">>

HexDigits ==
    Digits \cup {"a", "b", "c", "d", "e", "f", "A", "B", "C", "D", "E", "F"}

\* ipaddress.IPv6Address._parse_hextet accepts the group.
IsHextet(part) ==
    Len(part) \in 1..4 /\ \A i \in 1..Len(part) : part[i] \in HexDigits

\* ipaddress.IPv4Address._parse_octet accepts the octet.
IsOctet(o) ==
    /\ Len(o) \in 1..3
    /\ AllDigits(o)
    /\ (Len(o) > 1 => o[1] # "0")
    /\ StrToInt(o) <= 255

IsIPv4(s) ==
    Len(Split(s, ".")) = 4 /\ \A i \in 1..4 : IsOctet(Split(s, ".")[i])

\* The groups of an IPv6 address after an IPv4 tail, if valid, is replaced by
\* two groups.
WithoutIPv4Tail(parts) ==
    IF Contains(parts[Len(parts)], <<".">>) /\ IsIPv4(parts[Len(parts)])
    THEN SubSeq(parts, 1, Len(parts) - 1) \o <<<<"0">>, <<"0">>>>
    ELSE parts

\* ipaddress.IPv6Address._ip_int_from_string accepts the groups with the one
\* "::" at the empty group skip (1-based).
IsIPv6Skipping(parts, skip) ==
    /\ (parts[1] = <<>> => skip = 2)
    /\ (parts[Len(parts)] = <<>> => skip = Len(parts) - 1)
    /\ Cardinality({i \in 1..Len(parts) : parts[i] # <<>>}) <= 7
    /\ \A i \in 1..Len(parts) : parts[i] # <<>> => IsHextet(parts[i])

IsIPv6Groups(parts) ==
    /\ Len(parts) <= 9
    /\ Cardinality({i \in 2..(Len(parts) - 1) : parts[i] = <<>>}) <= 1
    /\ IF \E i \in 2..(Len(parts) - 1) : parts[i] = <<>>
       THEN IsIPv6Skipping(parts,
                CHOOSE i \in 2..(Len(parts) - 1) : parts[i] = <<>>)
       ELSE Len(parts) = 8 /\ \A i \in 1..8 : IsHextet(parts[i])

\* ipaddress.ip_address(s) is an IPv6Address: the address, and a scope id
\* after "%" that is neither empty nor holds another "%".
IsIPv6(s) ==
    /\ (Contains(s, <<"%">>) =>
            /\ SplitOnce(s, "%")[2] # <<>>
            /\ ~Contains(SplitOnce(s, "%")[2], <<"%">>))
    /\ Len(Split(SplitOnce(s, "%")[1], ":")) >= 3
    /\ IsIPv6Groups(WithoutIPv4Tail(Split(SplitOnce(s, "%")[1], ":")))

\* re.match(r"\Av[a-fA-F0-9]+\..+\Z", s)
IsIPvFuture(s) ==
    /\ Find(s, ".") >= 3
    /\ \A i \in 2..(Find(s, ".") - 1) : s[i] \in HexDigits
    /\ Len(s) > Find(s, ".")
    /\ \A i \in (Find(s, ".") + 1)..Len(s) : s[i] # "\n"

\* urllib.parse._check_bracketed_host raises ValueError.
BracketedHostInvalid(host) ==
    IF StartsWith(host, <<"v">>) THEN ~IsIPvFuture(host) ELSE ~IsIPv6(host)

\* urlsplit raises ValueError for the authority: one bracket without the
\* other, or a bracketed host, netloc.partition('[')[2].partition(']')[0],
\* that is no IPv6 or IPvFuture address.
NetlocInvalid(netloc) ==
    IF Find(netloc, "[") > 0 /\ Find(netloc, "]") > 0
    THEN BracketedHostInvalid(SplitOnce(SplitOnce(netloc, "[")[2], "]")[1])
    ELSE Find(netloc, "[") > 0 \/ Find(netloc, "]") > 0

\* urlsplit, the authority: (netloc, rest of the url).
SplitNetloc(rest) ==
    IF StartsWith(rest, <<"/", "/">>)
    THEN <<SubSeq(rest, 3, FirstOf(rest, {"/", "?", "#"}, 3) - 1),
           SubSeq(rest, FirstOf(rest, {"/", "?", "#"}, 3), Len(rest))>>
    ELSE <<<<>>, rest>>

\* urlparse, the parameters: (path, params).
SplitPathParams(scheme, path) ==
    IF scheme \in UsesParams /\ Find(path, ";") > 0
    THEN SplitParams(path)
    ELSE <<path, <<>>>>

ParsedUrl(scheme, netloc, pp, query, fragment) ==
    [scheme |-> scheme, netloc |-> netloc, path |-> pp[1], params |-> pp[2],
     query |-> query, fragment |-> fragment]

ParseQuery(scheme, netloc, pq, fragment) ==
    ParsedUrl(scheme, netloc, SplitPathParams(scheme, pq[1]), pq[2], fragment)

ParseFragment(scheme, netloc, uf) ==
    ParseQuery(scheme, netloc, SplitOnce(uf[1], "?"), uf[2])

ParseNetloc(scheme, nr) == ParseFragment(scheme, nr[1], SplitOnce(nr[2], "#"))

ParseScheme(sr) == ParseNetloc(sr[1], SplitNetloc(sr[2]))

\* urllib.parse.urlparse(url, scheme=default): scheme, then authority, then
\* fragment, then query, then parameters.  The value when it does not raise.
urlparse(url, default) == ParseScheme(SplitScheme(url, default))

\* urlparse(url, scheme=default) raises ValueError.
UrlparseRaises(url, default) ==
    NetlocInvalid(SplitNetloc(SplitScheme(url, default)[2])[1])

\* urlunsplit: the "//" + netloc prefix and the scheme.
WithNetloc(scheme, netloc, url) ==
    IF \/ netloc # <<>>
       \/ /\ scheme # <<>>
          /\ scheme \in UsesNetloc
          /\ ~StartsWith(url, <<"/", "/">>)
    THEN <<"/", "/">> \o netloc
           \o (IF url # <<>> /\ url[1] # "/" THEN <<"/">> ELSE <<>>)
           \o url
    ELSE url

WithScheme(scheme, url) == IF scheme # <<>> THEN scheme \o <<":">> \o url ELSE url

WithSuffix(url, mark, part) == IF part # <<>> THEN url \o <<mark>> \o part ELSE url

\* urllib.parse.urlunparse((scheme, netloc, path, params, query, fragment))
urlunparse(u) ==
    WithSuffix(
        WithSuffix(
            WithScheme(u.scheme,
                WithNetloc(u.scheme, u.netloc, WithSuffix(u.path, ";", u.params))),
            "?", u.query),
        "#", u.fragment)

\* The dot-segment resolution loop of urllib.parse.urljoin.
RECURSIVE ResolveDots(_, _)
ResolveDots(segments, resolved) ==
    IF segments = <<>> THEN resolved
    ELSE IF Head(segments) = <<".", ".">>
         THEN ResolveDots(Tail(segments),
                 IF resolved = <<>> THEN <<>>
                 ELSE SubSeq(resolved, 1, Len(resolved) - 1))
         ELSE IF Head(segments) = <<".">>
         THEN ResolveDots(Tail(segments), resolved)
         ELSE ResolveDots(Tail(segments), Append(resolved, Head(segments)))

\* segments[1:-1] = filter(None, segments[1:-1])
FilterMiddle(segments) ==
    IF Len(segments) <= 2 THEN segments
    ELSE <<segments[1]>>
           \o SelectSeq(SubSeq(segments, 2, Len(segments) - 1), LAMBDA x : x # <<>>)
           \o <<segments[Len(segments)]>>

\* base_parts: bpath.split('/') without a last item that is not a directory
BaseParts(parts) ==
    IF parts[Len(parts)] # <<>> THEN SubSeq(parts, 1, Len(parts) - 1) ELSE parts

\* The segments urljoin resolves.
JoinSegments(bpath, path) ==
    IF path # <<>> /\ path[1] = "/"
    THEN Split(path, "/")
    ELSE FilterMiddle(BaseParts(Split(bpath, "/")) \o Split(path, "/"))

\* '/'.join(resolved_path) or '/', with the trailing '' of a final . or ..
ResolvedPath(segments, resolved) ==
    IF Join(IF segments[Len(segments)] \in {<<".">>, <<".", ".">>}
            THEN Append(resolved, <<>>) ELSE resolved, "/") = <<>>
    THEN <<"/">>
    ELSE Join(IF segments[Len(segments)] \in {<<".">>, <<".", ".">>}
              THEN Append(resolved, <<>>) ELSE resolved, "/")

JoinPath(bpath, path) ==
    ResolvedPath(JoinSegments(bpath, path), ResolveDots(JoinSegments(bpath, path), <<>>))

\* urljoin once both URLs are parsed.
JoinParsed(url, b, u) ==
    IF u.scheme # b.scheme \/ u.scheme \notin UsesRelative THEN url
    ELSE IF u.scheme \in UsesNetloc /\ u.netloc # <<>> THEN urlunparse(u)
    ELSE IF u.path = <<>> /\ u.params = <<>>
    THEN urlunparse([scheme |-> u.scheme,
                     netloc |-> IF u.scheme \in UsesNetloc THEN b.netloc ELSE u.netloc,
                     path |-> b.path, params |-> b.params,
                     query |-> IF u.query = <<>> THEN b.query ELSE u.query,
                     fragment |-> u.fragment])
    ELSE urlunparse([scheme |-> u.scheme,
                     netloc |-> IF u.scheme \in UsesNetloc THEN b.netloc ELSE u.netloc,
                     path |-> JoinPath(b.path, u.path),
                     params |-> u.params, query |-> u.query,
                     fragment |-> u.fragment])

JoinWithBase(url, b) ==
    IF UrlparseRaises(url, b.scheme) THEN ValueError
    ELSE JoinParsed(url, b, urlparse(url, b.scheme))

\* urllib.parse.urljoin(base, url); ValueError when parsing either raises it
urljoin(base, url) ==
    IF base = <<>> THEN url
    ELSE IF url = <<>> THEN base
    ELSE IF UrlparseRaises(base, <<>>) THEN ValueError
    ELSE JoinWithBase(url, urlparse(base, <<>>))

(***************************************************************************)
(* Page identity and URL canonicalization.                                 *)
(***************************************************************************)
\* The value parse_page_ref has when it raises ValueError.
NoRef == [book_id |-> -1, volume |-> -1, page |-> -1]

\* The last three of the slash-separated fields f, when each is a non-empty
\* run of digits and a "/" precedes the first of them.
LastThreeNumbers(f) ==
    IF /\ Len(f) >= 4
       /\ AllDigits(f[Len(f) - 2])
       /\ AllDigits(f[Len(f) - 1])
       /\ AllDigits(f[Len(f)])
    THEN <<f[Len(f) - 2], f[Len(f) - 1], f[Len(f)]>>
    ELSE <<>>

\* PAGE_PATH_RE.search(path): /(\d+)/(\d+)/(\d+)/?$ . The match, if any, is
\* the last three slash-separated fields of the path, after at most one
\* trailing slash.
PAGE_PATH_RE(path) ==
    LastThreeNumbers(
        Split(IF EndsWith(path, "/") THEN SubSeq(path, 1, Len(path) - 1) ELSE path,
              "/"))

RefOfMatch(match) ==
    IF match = <<>> THEN NoRef
    ELSE [book_id |-> StrToInt(match[1]),
          volume |-> StrToInt(match[2]),
          page |-> StrToInt(match[3])]

parse_page_ref(url) ==
    IF UrlparseRaises(url, <<>>) THEN NoRef
    ELSE RefOfMatch(PAGE_PATH_RE(urlparse(url, <<>>).path))

\* path = parsed.path.rstrip("/"); if not path: path = "/"
CanonicalPath(path) == IF RStrip(path, "/") = <<>> THEN <<"/">> ELSE RStrip(path, "/")

CanonicalOfParsed(parsed) ==
    urlunparse([scheme |-> parsed.scheme, netloc |-> parsed.netloc,
                path |-> CanonicalPath(parsed.path), params |-> <<>>,
                query |-> <<>>, fragment |-> <<>>])

\* canonical_url; ValueError when urlparse raises it
canonical_url(url) ==
    IF UrlparseRaises(url, <<>>) THEN ValueError
    ELSE CanonicalOfParsed(urlparse(url, <<>>))

(***************************************************************************)
(* Input URLs: every concatenation of a scheme part, an authority part, a  *)
(* path prefix, a page path and a tail.                                    *)
(***************************************************************************)
UrlSchemes == {<<>>, <<"h", "t", "t", "p", ":">>, <<"H", "T", "T", "P", ":">>}
UrlAuthorities == {<<>>, <<"/", "/", "s">>, <<"/", "/">>}
UrlPrefixes == {<<>>, <<"/", "x">>, <<"/">>}
UrlPagePaths ==
    {<<"/", "1", "/", "2", "/", "3">>,
     <<"/", "1", "/", "0", "2", "/", "1", "0">>,
     <<"/", "1", "/", "2">>,
     <<"/", "1", "/", "x", "/", "3">>}
\* Decorations: an optional trailing slash, a query, a fragment.
UrlDecorations ==
    {<<>>, <<"/">>, <<"?", "q">>, <<"#", "f">>, <<"/", "?", "q", "#", "f">>,
     <<"?", "/", "7">>}
UrlTails == UrlDecorations \cup {<<"/", "/">>, <<";", "p">>}

UrlBases ==
    {s \o a \o x \o p : s \in UrlSchemes, a \in UrlAuthorities,
                        x \in UrlPrefixes, p \in UrlPagePaths}

(***************************************************************************)
(* SpecUrl: canonical_url applied repeatedly to a URL and to a variant of  *)
(* it that differs in its tail only.                                       *)
(***************************************************************************)
MaxCanon == 2

UrlState(n, a, b) ==
    [n |-> n, val |-> a, other |-> b,
     ref |-> parse_page_ref(a), other_ref |-> parse_page_ref(b)]

InitUrl ==
    /\ \E base \in UrlBases, t1 \in UrlTails, t2 \in UrlDecorations :
          /\ url_in = base \o t1
          /\ url_other = base \o t2
    /\ url_out = UrlState(0, url_in, url_other)
    /\ pg = <<>>
    /\ parser = <<>>
    /\ fed = <<>>
    /\ crawl = <<>>

\* current_url = canonical_url(url), then ref = parse_page_ref(current_url)
Canonicalize ==
    /\ url_out.n < MaxCanon
    /\ url_out' = UrlState(url_out.n + 1, canonical_url(url_out.val),
                           canonical_url(url_out.other))
    /\ UNCHANGED <<url_in, url_other, pg, parser, fed, crawl>>

NextUrl == Canonicalize

SpecUrl == InitUrl /\ [][NextUrl]_vars

\* A valid page URL: parse_page_ref does not raise.
ValidPageUrl(u) == parse_page_ref(u) # NoRef

\* The two URLs differ only in trailing slash, query or fragment.
DifferOnlyInDecoration(u, v) ==
    \E base \in UrlBases, t1, t2 \in UrlDecorations : u = base \o t1 /\ v = base \o t2

\* C5: for every valid page URL u, canonical_url is idempotent and keeps the
\* page identity (parse_page_ref(canonical_url(u)) = parse_page_ref(u)), and
\* two valid URLs that differ only in trailing slash, query or fragment have
\* the same canonical URL.
C5_CanonicalKeepsIdentity ==
    ValidPageUrl(url_in) =>
       /\ (url_out.n >= 2 => url_out.val = canonical_url(url_in))
       /\ (url_out.n >= 1 => url_out.ref = parse_page_ref(url_in))
       /\ (/\ url_out.n >= 1
           /\ ValidPageUrl(url_other)
           /\ DifferOnlyInDecoration(url_in, url_other)
           => url_out.val = url_out.other)

(***************************************************************************)
(* Link-based pagination: find_next_page_url, discover_last_page_in_volume *)
(***************************************************************************)
\* Python's None where a URL (a string) is expected, and where a page number is.
None == <<"None">>
NoPage == -1

\* (v1, p1) < (v2, p2), Python's tuple order
KeyLess(a, b) == a[1] < b[1] \/ (a[1] = b[1] /\ a[2] < b[2])
KeyLessEq(a, b) == a = b \/ KeyLess(a, b)

RefKey(ref) == <<ref.volume, ref.page>>

\* joined = canonical_url(urljoin(current_url, href)); ValueError when the
\* join or the canonicalisation raises it.
Joined(current_url, href) ==
    IF urljoin(current_url, href) = ValueError THEN ValueError
    ELSE canonical_url(urljoin(current_url, href))

\* The join of some href raises: it stands before the try of the loop body,
\* so the ValueError leaves the loop and the function.
LinkRaises(current_url, hrefs) ==
    \E i \in 1..Len(hrefs) : Joined(current_url, hrefs[i]) = ValueError

\* The value of discover_last_page_in_volume when it raises ValueError.
LastPageRaises == -2

\* The loop of find_next_page_url over hrefs none of which raises:
\* candidates is the dict, kept as the sequence of its (key, url) items in
\* insertion order.
RECURSIVE NextCandidates(_, _, _, _)
NextCandidates(current_url, current_ref, hrefs, candidates) ==
    IF hrefs = <<>> THEN candidates
    ELSE
      LET joined == Joined(current_url, Head(hrefs))
          candidate_ref == parse_page_ref(joined)
          candidate_key == RefKey(candidate_ref)
          skip == \/ candidate_ref = NoRef
                  \/ candidate_ref.book_id # current_ref.book_id
                  \/ KeyLessEq(candidate_key, RefKey(current_ref))
          known == \E i \in 1..Len(candidates) : candidates[i][1] = candidate_key
      IN  NextCandidates(current_url, current_ref, Tail(hrefs),
              IF skip \/ known THEN candidates
              ELSE Append(candidates, <<candidate_key, joined>>))

find_next_page_url(current_url, current_ref, hrefs) ==
    LET candidates == NextCandidates(current_url, current_ref, hrefs, <<>>)
        least == CHOOSE i \in 1..Len(candidates) :
                    \A j \in 1..Len(candidates) :
                        KeyLessEq(candidates[i][1], candidates[j][1])
    IN  IF LinkRaises(current_url, hrefs) THEN ValueError
        ELSE IF candidates = <<>> THEN None ELSE candidates[least][2]

\* The loop of discover_last_page_in_volume over hrefs none of which raises;
\* acc is (found, highest_page).
RECURSIVE LastPageLoop(_, _, _, _)
LastPageLoop(current_url, current_ref, hrefs, acc) ==
    IF hrefs = <<>> THEN acc
    ELSE
      LET candidate_ref == parse_page_ref(Joined(current_url, Head(hrefs)))
          skip == \/ candidate_ref = NoRef
                  \/ candidate_ref.book_id # current_ref.book_id
                  \/ candidate_ref.volume # current_ref.volume
      IN  LastPageLoop(current_url, current_ref, Tail(hrefs),
              IF skip THEN acc
              ELSE [found |-> TRUE,
                    highest_page |-> IF candidate_ref.page > acc.highest_page
                                     THEN candidate_ref.page
                                     ELSE acc.highest_page])

discover_last_page_in_volume(current_url, current_ref, hrefs) ==
    LET acc == LastPageLoop(current_url, current_ref, hrefs,
                   [found |-> FALSE, highest_page |-> current_ref.page])
    IN  IF LinkRaises(current_url, hrefs) THEN LastPageRaises
        ELSE IF ~acc.found THEN NoPage ELSE acc.highest_page

(***************************************************************************)
(* SpecPaging: the two pagination functions applied to a current page and  *)
(* a hyperlink list built one href at a time.                              *)
(***************************************************************************)
HttpS == <<"h", "t", "t", "p", ":", "/", "/", "s">>

PagingCurrentUrls == {HttpS \o <<"/", "1", "/", "1", "/", "4">>}

PagingHrefs ==
    {<<"/", "1", "/", "1", "/", "5">>,                \* (1,5)
     <<"/", "1", "/", "1", "/", "7">>,                \* (1,7)
     <<"/", "1", "/", "2", "/", "0">>,                \* (2,0)
     <<"/", "1", "/", "1", "/", "0", "5", "/">>,      \* (1,5) again, another URL
     <<"1", "0", "?", "q">>,                          \* relative: (1,10)
     <<"/", "2", "/", "1", "/", "9">>,                \* another book
     <<"/", "1", "/", "1", "/", "3">>,                \* backward
     <<"4", "#", "f">>,                               \* relative: the current page
     <<"/", "1", "/", "0", "/", "9">>,                \* earlier volume, later page
     <<"x">>,                                         \* not a page URL
     <<"/", "/", "[", "s", "/", "1", "/", "1", "/", "5">>}  \* malformed authority

InitPaging ==
    /\ \E u \in PagingCurrentUrls :
          pg = [op |-> "input", current_url |-> u,
                current_ref |-> parse_page_ref(u), hrefs |-> <<>>,
                next_url |-> None, last_page |-> NoPage]
    /\ url_in = <<>>
    /\ url_other = <<>>
    /\ url_out = <<>>
    /\ parser = <<>>
    /\ fed = <<>>
    /\ crawl = <<>>

\* The extraction pass collects one more hyperlink.
AppendHref ==
    /\ pg.op = "input"
    /\ Len(pg.hrefs) < MaxHrefs
    /\ \E h \in PagingHrefs : pg' = [pg EXCEPT !.hrefs = Append(@, h)]
    /\ UNCHANGED <<url_in, url_other, url_out, parser, fed, crawl>>

CallFindNext ==
    /\ pg.op = "input"
    /\ pg' = [pg EXCEPT !.op = "next",
                        !.next_url = find_next_page_url(pg.current_url,
                                         pg.current_ref, pg.hrefs)]
    /\ UNCHANGED <<url_in, url_other, url_out, parser, fed, crawl>>

CallDiscoverLast ==
    /\ pg.op = "input"
    /\ pg' = [pg EXCEPT !.op = "last",
                        !.last_page = discover_last_page_in_volume(pg.current_url,
                                          pg.current_ref, pg.hrefs)]
    /\ UNCHANGED <<url_in, url_other, url_out, parser, fed, crawl>>

NextPaging == AppendHref \/ CallFindNext \/ CallDiscoverLast

SpecPaging == InitPaging /\ [][NextPaging]_vars

\* The PageRef the link at index i resolves to (NoRef when it does not parse,
\* a link that cannot be joined included).
LinkRef(i) == parse_page_ref(Joined(pg.current_url, pg.hrefs[i]))

\* The links that are forward candidates: same book, strictly later (volume, page).
ForwardLinks ==
    {i \in 1..Len(pg.hrefs) :
        /\ LinkRef(i) # NoRef
        /\ LinkRef(i).book_id = pg.current_ref.book_id
        /\ KeyLess(RefKey(pg.current_ref), RefKey(LinkRef(i)))}

\* The first link, in list order, with the smallest (volume, page) among the
\* forward candidates.
NearestForwardLink ==
    CHOOSE i \in ForwardLinks :
        /\ \A j \in ForwardLinks : KeyLessEq(RefKey(LinkRef(i)), RefKey(LinkRef(j)))
        /\ \A j \in ForwardLinks : RefKey(LinkRef(j)) = RefKey(LinkRef(i)) => i <= j

\* C3: find_next_page_url returns the first-seen canonical URL of the
\* smallest (volume, page) among the same-book links strictly after the
\* current page, none when there is no such link, and never a URL at or
\* before the current page.
C3_NextIsNearestForward ==
    pg.op = "next" =>
       /\ (ForwardLinks = {} <=> pg.next_url = None)
       /\ (ForwardLinks # {} =>
             /\ pg.next_url = Joined(pg.current_url, pg.hrefs[NearestForwardLink])
             /\ parse_page_ref(pg.next_url).book_id = pg.current_ref.book_id
             /\ KeyLess(RefKey(pg.current_ref), RefKey(parse_page_ref(pg.next_url))))

\* The links in the current book and the current volume.
InVolumeLinks ==
    {i \in 1..Len(pg.hrefs) :
        /\ LinkRef(i) # NoRef
        /\ LinkRef(i).book_id = pg.current_ref.book_id
        /\ LinkRef(i).volume = pg.current_ref.volume}

\* C4: discover_last_page_in_volume returns none exactly when no link is in
\* the current book and volume; otherwise the maximum of the current page
\* and the pages of those links, so never less than the current page.
C4_LastPageInVolume ==
    pg.op = "last" =>
       /\ (InVolumeLinks = {} <=> pg.last_page = NoPage)
       /\ (InVolumeLinks # {} =>
             /\ pg.last_page >= pg.current_ref.page
             /\ \A i \in InVolumeLinks : pg.last_page >= LinkRef(i).page
             /\ \/ pg.last_page = pg.current_ref.page
                \/ \E i \in InVolumeLinks : pg.last_page = LinkRef(i).page)

(***************************************************************************)
(* EshiaPageParser: the extraction state machine.  The object is a record  *)
(* of its fields; each handler is an operator from the object and the      *)
(* event to the object after the call.  Tag and attribute names are atoms; *)
(* attribute values and text are strings.  attrs is the list of            *)
(* (name, value) pairs HTMLParser passes; a value may be AttrNone.         *)
(***************************************************************************)
BLOCK_END_TAGS ==
    {"address", "article", "aside", "blockquote", "dd", "div", "dl", "dt",
     "fieldset", "figcaption", "figure", "footer", "form", "h1", "h2", "h3",
     "h4", "h5", "h6", "header", "li", "main", "nav", "ol", "p", "section",
     "table", "tr", "ul"}

FORCED_BREAK_TAGS == {"br", "hr"}
MUTED_TAGS == {"script", "style", "noscript"}

\* The value None of an attribute written without "=value".
AttrNone == <<"None">>

ClsBookPageShow ==
    <<"b", "o", "o", "k", "-", "p", "a", "g", "e", "-", "s", "h", "o", "w">>
ClsStickyMenue == <<"s", "t", "i", "c", "k", "y", "-", "m", "e", "n", "u", "e">>
ClsFootnote == <<"f", "o", "o", "t", "n", "o", "t", "e">>
ClsKalamateKhas == <<"K", "a", "l", "a", "m", "a", "t", "e", "K", "h", "a", "s">>
ClsKalamateKhas2 == ClsKalamateKhas \o <<"2">>
FtnMarker == <<"_", "f", "t", "n">>
HashFtnMarker == <<"#">> \o FtnMarker
HeadingMarker == <<"#", "#">>
NewlineFragment == <<"\n">>
SeparatorFragment ==
    <<"_", "_", "_", "_", "_", "_", "_", "_", "_", "_", "_", "_", "\n">>

\* EshiaPageParser.__init__
NewParser ==
    [hrefs |-> <<>>,
     found_reader |-> FALSE,
     in_reader |-> FALSE,
     reader_td_depth |-> 0,
     sticky_depth |-> 0,
     muted_depth |-> 0,
     footnote_depth |-> 0,
     in_footnote_section |-> FALSE,
     footnote_separator_emitted |-> FALSE,
     pre_depth |-> 0,
     parts |-> <<>>]

\* attr_map = {name: value or "" for name, value in attrs}; attr_map.get(name, "")
\* (a later pair of the same name replaces an earlier one).
RECURSIVE AttrGet(_, _)
AttrGet(attrs, name) ==
    IF attrs = <<>> THEN <<>>
    ELSE LET last == attrs[Len(attrs)]
         IN  IF last[1] = name
             THEN (IF last[2] = AttrNone THEN <<>> ELSE last[2])
             ELSE AttrGet(SubSeq(attrs, 1, Len(attrs) - 1), name)

\* class_value.split(): the set of maximal runs of non-whitespace characters.
RECURSIVE SplitWords(_, _)
SplitWords(s, word) ==
    IF s = <<>> THEN (IF word = <<>> THEN {} ELSE {word})
    ELSE IF Head(s) \in Whitespace
         THEN (IF word = <<>> THEN {} ELSE {word}) \cup SplitWords(Tail(s), <<>>)
         ELSE SplitWords(Tail(s), Append(word, Head(s)))

\* EshiaPageParser._has_class
has_class(class_value, class_name) == class_name \in SplitWords(class_value, <<>>)

\* EshiaPageParser._is_special_heading_tag
is_special_heading_tag(tag, attrs) ==
    LET class_value == AttrGet(attrs, "class")
    IN  \/ tag = "span" /\ has_class(class_value, ClsKalamateKhas)
        \/ tag = "p" /\ has_class(class_value, ClsKalamateKhas)
        \/ tag = "p" /\ has_class(class_value, ClsKalamateKhas2)

\* EshiaPageParser._is_footnote_anchor
is_footnote_anchor(p, attrs) ==
    /\ p.footnote_depth > 0 \/ p.in_footnote_section
    /\ \/ Contains(Lower(AttrGet(attrs, "name")), FtnMarker)
       \/ Contains(Lower(AttrGet(attrs, "href")), FtnMarker)
       \/ Contains(Lower(AttrGet(attrs, "href")), HashFtnMarker)

\* WHITESPACE_RE.sub(" ", text): every maximal run of whitespace becomes " ".
RECURSIVE CollapseWhitespace(_)
CollapseWhitespace(text) ==
    IF text = <<>> THEN <<>>
    ELSE IF Head(text) \in Whitespace
         THEN (IF Len(text) >= 2 /\ text[2] \in Whitespace
               THEN CollapseWhitespace(Tail(text))
               ELSE <<" ">> \o CollapseWhitespace(Tail(text)))
         ELSE <<Head(text)>> \o CollapseWhitespace(Tail(text))

\* The last fragment of the buffer.
LastPart(p) == p.parts[Len(p.parts)]

\* A variant that leaves the last fragment as it is.
TrimLastPart_untrimmed(parts) == parts

\* self._parts[-1] = self._parts[-1].rstrip(" "); if it is now "": pop it
TrimLastPart(parts) ==
    LET trimmed == RStrip(parts[Len(parts)], " ")
        front == SubSeq(parts, 1, Len(parts) - 1)
    IN  IF trimmed = <<>> THEN front ELSE Append(front, trimmed)

\* EshiaPageParser._append_footnote_separator
append_footnote_separator(p) ==
    LET parts1 == IF p.parts # <<>> THEN TrimLastPart(p.parts) ELSE p.parts
        parts2 == IF parts1 # <<>> /\ ~EndsWith(parts1[Len(parts1)], "\n")
                  THEN Append(parts1, NewlineFragment)
                  ELSE parts1
    IN  [p EXCEPT !.parts = Append(parts2, SeparatorFragment)]

\* A variant that keeps the leading space of every fragment.
append_text_keeps_leading_space(p, text) ==
    LET text1 == IF p.pre_depth = 0 THEN CollapseWhitespace(text) ELSE text
    IN  IF text = <<>> \/ text1 = <<>> THEN p
        ELSE [p EXCEPT !.parts = Append(@, text1)]

\* EshiaPageParser._append_text
append_text(p, text) ==
    LET text1 == IF p.pre_depth = 0 THEN CollapseWhitespace(text) ELSE text
        text2 == IF p.parts # <<>>
                 THEN (IF EndsWith(LastPart(p), "\n") THEN LStrip(text1, " ")
                       ELSE IF EndsWith(LastPart(p), " ") THEN LStrip(text1, " ")
                       ELSE text1)
                 ELSE LStrip(text1, " ")
    IN  IF text = <<>> \/ text1 = <<>> \/ text2 = <<>> THEN p
        ELSE [p EXCEPT !.parts = Append(@, text2)]

\* A variant that appends a newline at every block close, as a forced break
\* does.
append_newline_always_appends(p, force) ==
    IF p.parts = <<>> THEN p
    ELSE LET parts1 == TrimLastPart(p.parts)
         IN  IF parts1 = <<>> THEN [p EXCEPT !.parts = parts1]
             ELSE [p EXCEPT !.parts = Append(parts1, NewlineFragment)]

\* A variant that treats a forced break like a block close: no newline is
\* appended after a fragment that already ends in one.
append_newline_never_forced(p, force) ==
    IF p.parts = <<>> THEN p
    ELSE LET parts1 == TrimLastPart(p.parts)
         IN  IF parts1 = <<>> THEN [p EXCEPT !.parts = parts1]
             ELSE IF ~EndsWith(parts1[Len(parts1)], "\n")
                  THEN [p EXCEPT !.parts = Append(parts1, NewlineFragment)]
                  ELSE [p EXCEPT !.parts = parts1]

\* EshiaPageParser._append_newline
append_newline(p, force) ==
    IF p.parts = <<>> THEN p
    ELSE LET parts1 == TrimLastPart(p.parts)
         IN  IF parts1 = <<>> THEN [p EXCEPT !.parts = parts1]
             ELSE IF force THEN [p EXCEPT !.parts = Append(parts1, NewlineFragment)]
             ELSE IF ~EndsWith(parts1[Len(parts1)], "\n")
                  THEN [p EXCEPT !.parts = Append(parts1, NewlineFragment)]
                  ELSE [p EXCEPT !.parts = parts1]

\* s.strip("\n")
StripNewlines(s) == RStrip(LStrip(s, "\n"), "\n")

\* EshiaPageParser.reader_text
reader_text(p) == StripNewlines(Concat(p.parts))

\* A variant that does not look at the separator-emitted flag.
FootnoteAnchorStep_every_anchor(p, tag, attrs) ==
    IF tag = "a" /\ is_footnote_anchor(p, attrs)
    THEN [append_footnote_separator(p) EXCEPT !.footnote_separator_emitted = TRUE]
    ELSE p

\* handle_starttag, lines 217-223: the one-time footnote separator.
FootnoteAnchorStep(p, tag, attrs) ==
    IF /\ tag = "a"
       /\ is_footnote_anchor(p, attrs)
       /\ ~p.footnote_separator_emitted
    THEN [append_footnote_separator(p) EXCEPT !.footnote_separator_emitted = TRUE]
    ELSE p

\* handle_starttag, lines 205-229: the part reached when the tag is inside the
\* reading region and no suppression applies.
StartTagVisible(p, tag, attrs) ==
    LET p1 == IF is_special_heading_tag(tag, attrs)
              THEN append_text(p, HeadingMarker) ELSE p
        p2 == IF p1.footnote_depth > 0
              THEN [p1 EXCEPT !.footnote_depth = @ + 1]
              ELSE IF has_class(AttrGet(attrs, "class"), ClsFootnote)
                   THEN [p1 EXCEPT !.footnote_depth = 1,
                                   !.in_footnote_section = TRUE]
                   ELSE p1
        p3 == IF tag = "hr" THEN [p2 EXCEPT !.in_footnote_section = TRUE] ELSE p2
        p4 == FootnoteAnchorStep(p3, tag, attrs)
        p5 == IF tag = "pre" THEN [p4 EXCEPT !.pre_depth = @ + 1] ELSE p4
    IN  IF tag \in FORCED_BREAK_TAGS THEN append_newline(p5, TRUE) ELSE p5

\* A variant that collects hyperlinks only outside suppressed subtrees.
CollectHref_unsuppressed_only(p, tag, attrs) ==
    LET href == AttrGet(attrs, "href")
    IN  IF tag = "a" /\ href # <<>> /\ p.sticky_depth = 0 /\ p.muted_depth = 0
        THEN [p EXCEPT !.hrefs = Append(@, href)] ELSE p

\* handle_starttag, lines 173-177: page-wide hyperlink collection.
CollectHref(p, tag, attrs) ==
    LET href == AttrGet(attrs, "href")
    IN  IF tag = "a" /\ href # <<>>
        THEN [p EXCEPT !.hrefs = Append(@, href)] ELSE p

\* EshiaPageParser.handle_starttag
handle_starttag(p, tag, attrs) ==
    LET p0 == CollectHref(p, tag, attrs)
        p1 == IF tag = "td" THEN [p0 EXCEPT !.reader_td_depth = @ + 1] ELSE p0
    IN  IF ~p0.in_reader
        THEN (IF tag = "td" /\ has_class(AttrGet(attrs, "class"), ClsBookPageShow)
              THEN [p0 EXCEPT !.found_reader = TRUE,
                              !.in_reader = TRUE,
                              !.reader_td_depth = 1]
              ELSE p0)
        ELSE IF p1.sticky_depth > 0 THEN [p1 EXCEPT !.sticky_depth = @ + 1]
        ELSE IF tag = "div" /\ has_class(AttrGet(attrs, "class"), ClsStickyMenue)
             THEN [p1 EXCEPT !.sticky_depth = 1]
        ELSE IF p1.muted_depth > 0 THEN [p1 EXCEPT !.muted_depth = @ + 1]
        ELSE IF tag \in MUTED_TAGS THEN [p1 EXCEPT !.muted_depth = 1]
        ELSE StartTagVisible(p1, tag, attrs)

\* EshiaPageParser.handle_endtag
handle_endtag(p, tag) ==
    LET p1 == IF p.sticky_depth > 0 THEN [p EXCEPT !.sticky_depth = @ - 1]
              ELSE IF p.muted_depth > 0 THEN [p EXCEPT !.muted_depth = @ - 1]
              ELSE
                LET a == IF p.footnote_depth > 0
                         THEN [p EXCEPT !.footnote_depth = @ - 1] ELSE p
                    b == IF tag = "pre" /\ a.pre_depth > 0
                         THEN [a EXCEPT !.pre_depth = @ - 1] ELSE a
                IN  IF tag \in BLOCK_END_TAGS THEN append_newline(b, FALSE) ELSE b
        p2 == [p1 EXCEPT !.reader_td_depth = @ - 1]
    IN  IF ~p.in_reader THEN p
        ELSE IF tag # "td" THEN p1
        ELSE IF p2.reader_td_depth <= 0
             THEN [p2 EXCEPT !.in_reader = FALSE,
                             !.reader_td_depth = 0,
                             !.footnote_depth = 0,
                             !.in_footnote_section = FALSE,
                             !.footnote_separator_emitted = FALSE]
             ELSE p2

\* A variant that lets text through inside a suppressed subtree.
handle_data_ignores_suppression(p, data) ==
    IF ~p.in_reader THEN p ELSE append_text(p, data)

\* A variant that lets text through outside the reading region.
handle_data_ignores_gate(p, data) ==
    IF p.sticky_depth > 0 \/ p.muted_depth > 0 THEN p ELSE append_text(p, data)

\* EshiaPageParser.handle_data
handle_data(p, data) ==
    IF ~p.in_reader \/ p.sticky_depth > 0 \/ p.muted_depth > 0 THEN p
    ELSE append_text(p, data)

\* One event of the tokenizer's stream, dispatched to its handler.
StartEv(tag, attrs) == [kind |-> "start", tag |-> tag, attrs |-> attrs, data |-> <<>>]
EndEv(tag) == [kind |-> "end", tag |-> tag, attrs |-> <<>>, data |-> <<>>]
TextEv(data) == [kind |-> "text", tag |-> "", attrs |-> <<>>, data |-> data]

HandleEvent(p, ev) ==
    CASE ev.kind = "start" -> handle_starttag(p, ev.tag, ev.attrs)
      [] ev.kind = "end" -> handle_endtag(p, ev.tag)
      [] ev.kind = "text" -> handle_data(p, ev.data)

\* parser.feed(html); parser.close() over the event stream of the markup
RECURSIVE FeedAll(_, _)
FeedAll(p, events) ==
    IF events = <<>> THEN p ELSE FeedAll(HandleEvent(p, Head(events)), Tail(events))

(***************************************************************************)
(* Extraction passes.  One pass feeds a fresh parser the events of one     *)
(* page, one handler call per step.  fed is the history of the pass:       *)
(*   n        the number of events fed,                                    *)
(*   example  whether the events fed are a prefix of ExampleStream,        *)
(*   anchors  the href attribute value of every anchor start tag fed that  *)
(*            carries an href attribute, in order,                         *)
(*   region_seps  the number of separator fragments appended since the     *)
(*            reading region was last entered,                             *)
(*   ftn_anchors  the number of footnote anchors handled, unsuppressed and *)
(*            in footnote context, since the region was last entered,      *)
(*   limit    the number of events the pass may feed.                      *)
(***************************************************************************)
TxtHelloWorld == <<"H", "e", "l", "l", "o", " ", " ", "w", "o", "r", "l", "d">>
TxtNext == <<"N", "e", "x", "t">>

EvReaderOpen == StartEv("td", << <<"class", ClsBookPageShow>> >>)

\* <td class="book-page-show"><p>Hello  world</p><br/><p>Next</p></td>
ExampleStream ==
    << EvReaderOpen,
       StartEv("p", <<>>), TextEv(TxtHelloWorld), EndEv("p"),
       StartEv("br", <<>>), EndEv("br"),
       StartEv("p", <<>>), TextEv(TxtNext), EndEv("p"),
       EndEv("td") >>

\* Whether the start tag is an anchor with an href attribute, and its value.
HasAttr(attrs, name) == \E i \in 1..Len(attrs) : attrs[i][1] = name

\* The value of the last pair of that name ("" for None), as HTMLParser's
\* caller sees the attribute.
AttrValue(attrs, name) == AttrGet(attrs, name)

\* The number of footnote separator fragments in the buffer.
SepCount(p) == Cardinality({i \in 1..Len(p.parts) : p.parts[i] = SeparatorFragment})

\* An anchor start tag whose name or href contains "_ftn" (in any letter case).
IsFtnAnchorEvent(ev) ==
    /\ ev.kind = "start"
    /\ ev.tag = "a"
    /\ \/ Contains(Lower(AttrValue(ev.attrs, "name")), FtnMarker)
       \/ Contains(Lower(AttrValue(ev.attrs, "href")), FtnMarker)

\* Footnote context is active for a start tag handled in state p: after an hr
\* or inside a footnote-class element (the tag's own class counts).
FootnoteContext(p, ev) ==
    \/ p.in_footnote_section
    \/ p.footnote_depth > 0
    \/ has_class(AttrValue(ev.attrs, "class"), ClsFootnote)

\* The event is handled inside the reading region and outside every
\* suppressed subtree.
Unsuppressed(p) == p.in_reader /\ p.sticky_depth = 0 /\ p.muted_depth = 0

InitPass(limit) ==
    /\ parser = NewParser
    /\ fed = [n |-> 0, example |-> TRUE, anchors |-> <<>>,
              region_seps |-> 0, ftn_anchors |-> 0, limit |-> limit]
    /\ url_in = <<>>
    /\ url_other = <<>>
    /\ url_out = <<>>
    /\ pg = <<>>
    /\ crawl = <<>>

Feed(ev) ==
    /\ fed.n < fed.limit
    /\ parser' = HandleEvent(parser, ev)
    /\ fed' = [fed EXCEPT
                 !.n = @ + 1,
                 !.example = /\ fed.example
                             /\ fed.n < Len(ExampleStream)
                             /\ ev = ExampleStream[fed.n + 1],
                 !.anchors = IF /\ ev.kind = "start"
                                /\ ev.tag = "a"
                                /\ HasAttr(ev.attrs, "href")
                             THEN Append(@, AttrValue(ev.attrs, "href"))
                             ELSE @,
                 !.region_seps = IF ~parser.in_reader /\ parser'.in_reader THEN 0
                                 ELSE @ + SepCount(parser') - SepCount(parser),
                 !.ftn_anchors = IF ~parser.in_reader /\ parser'.in_reader THEN 0
                                 ELSE IF /\ IsFtnAnchorEvent(ev)
                                         /\ Unsuppressed(parser)
                                         /\ FootnoteContext(parser, ev)
                                      THEN @ + 1
                                      ELSE @]
    /\ UNCHANGED <<url_in, url_other, url_out, pg, crawl>>

HandleStartTag(events) == \E ev \in events : ev.kind = "start" /\ Feed(ev)
HandleEndTag(events) == \E ev \in events : ev.kind = "end" /\ Feed(ev)
HandleData(events) == \E ev \in events : ev.kind = "text" /\ Feed(ev)

(***************************************************************************)
(* SpecExtract: every stream of paragraph, break and text events.          *)
(***************************************************************************)
ExtractEvents ==
    {ExampleStream[i] : i \in 1..Len(ExampleStream)}

InitExtract == InitPass(MaxExtractEvents)

NextExtract ==
    \/ HandleStartTag(ExtractEvents)
    \/ HandleEndTag(ExtractEvents)
    \/ HandleData(ExtractEvents)

SpecExtract == InitExtract /\ [][NextExtract]_vars

\* C1 as stated: the example stream yields exactly "Hello world\nNext", one
\* newline and no blank line between the two paragraphs.
C1_ExampleSingleNewline ==
    fed.example /\ fed.n = Len(ExampleStream) =>
        reader_text(parser) =
            <<"H", "e", "l", "l", "o", " ", "w", "o", "r", "l", "d", "\n",
              "N", "e", "x", "t">>

\* C1 amended: the example stream yields "Hello world\n\nNext": the run of
\* spaces is collapsed to one space, and the paragraph close and the forced
\* break each append one newline, so one blank line separates the paragraphs.
C1_ExampleText ==
    fed.example /\ fed.n = Len(ExampleStream) =>
        /\ parser.parts = << <<"H", "e", "l", "l", "o", " ", "w", "o", "r", "l", "d">>,
                             NewlineFragment, NewlineFragment, TxtNext,
                             NewlineFragment >>
        /\ reader_text(parser) =
              <<"H", "e", "l", "l", "o", " ", "w", "o", "r", "l", "d", "\n", "\n",
                "N", "e", "x", "t">>

\* The whole example stream has been fed to a fresh parser.
C1_Witness ==
    /\ fed.example
    /\ fed.n = Len(ExampleStream)
    /\ ~parser.in_reader
    /\ parser.found_reader

(***************************************************************************)
(* SpecFootnote: every stream of region, rule, anchor, footnote-class,     *)
(* suppression and text events.                                            *)
(***************************************************************************)
ValFtn1 == <<"_", "f", "t", "n", "1">>
ValFtnRef == <<"#", "_", "F", "T", "N", "r", "e", "f", "1">>
TxtOne == <<"1">>

FootnoteEvents ==
    {EvReaderOpen,
     StartEv("td", <<>>),
     EndEv("td"),
     StartEv("hr", <<>>),
     StartEv("a", << <<"name", ValFtn1>> >>),
     StartEv("a", << <<"href", ValFtnRef>> >>),
     EndEv("a"),
     StartEv("div", << <<"class", ClsFootnote>> >>),
     StartEv("div", << <<"class", ClsStickyMenue>> >>),
     EndEv("div"),
     StartEv("script", <<>>),
     TextEv(TxtOne)}

InitFootnote == InitPass(MaxFootnoteEvents)

NextFootnote ==
    \/ HandleStartTag(FootnoteEvents)
    \/ HandleEndTag(FootnoteEvents)
    \/ HandleData(FootnoteEvents)

SpecFootnote == InitFootnote /\ [][NextFootnote]_vars

\* C2 as stated: in one extraction pass the separator line is appended to the
\* buffer at most once, also across a close and a re-opening of the reading
\* region.
C2_OncePerPage == SepCount(parser) <= 1

\* C2 amended: between the opening of a reading region and its close the
\* separator is appended exactly once if a footnote anchor was handled there
\* in footnote context, by the first such anchor and before its text, and not
\* at all otherwise; later footnote anchors of the same region add none.
C2_OncePerRegion ==
    /\ fed.region_seps = IF fed.ftn_anchors > 0 THEN 1 ELSE 0
    /\ parser.in_reader => (parser.footnote_separator_emitted <=> fed.region_seps = 1)

\* Two footnote anchors were handled in one region, after a rule, and text
\* followed the separator.
C2_Witness ==
    /\ fed.ftn_anchors >= 2
    /\ fed.region_seps = 1
    /\ parser.in_reader
    /\ Len(parser.parts) >= 2
    /\ parser.parts[Len(parser.parts) - 1] = SeparatorFragment
    /\ LastPart(parser) = TxtOne

(***************************************************************************)
(* SpecLinks: every stream of anchors with and without href, inside and    *)
(* outside the reading region and the suppressed subtrees.                 *)
(***************************************************************************)
ValPage5 == <<"/", "1", "/", "1", "/", "5">>
ValPage6 == <<"6">>

LinkEvents ==
    {EvReaderOpen,
     EndEv("td"),
     StartEv("a", << <<"href", ValPage5>> >>),
     StartEv("a", << <<"href", ValPage6>>, <<"class", ClsFootnote>> >>),
     StartEv("a", << <<"href", <<>> >> >>),
     StartEv("a", << <<"name", ValFtn1>> >>),
     StartEv("div", << <<"class", ClsStickyMenue>> >>),
     EndEv("div"),
     StartEv("script", <<>>),
     EndEv("script"),
     TextEv(TxtOne)}

InitLinks == InitPass(MaxLinkEvents)

NextLinks ==
    \/ HandleStartTag(LinkEvents)
    \/ HandleEndTag(LinkEvents)
    \/ HandleData(LinkEvents)

SpecLinks == InitLinks /\ [][NextLinks]_vars

\* C10 as stated: the collected list is the href value of every anchor start
\* tag seen so far, in document order, whatever the gate and the counters.
C10_AllAnchorHrefs == parser.hrefs = fed.anchors

\* C10 amended: the collected list is the non-empty href value of every anchor
\* start tag seen so far, in document order, whatever the gate and the
\* counters; an anchor whose href is empty is not collected.
C10_NonEmptyAnchorHrefs ==
    parser.hrefs = SelectSeq(fed.anchors, LAMBDA h : h # <<>>)

\* One link was collected before the region and one inside a sticky-menue
\* overlay, where an anchor with an empty href was seen too.
C10_Witness ==
    /\ fed.n = 5
    /\ parser.in_reader
    /\ parser.sticky_depth = 3
    /\ Len(parser.hrefs) = 2
    /\ Len(fed.anchors) = 3

(***************************************************************************)
(* SpecCrawl: main() from the call of crawl_book to the exit code.  The    *)
(* transport is the environment: each attempt of fetch_html returns a      *)
(* page's markup, fails with an error the except clause lists (HTTPError,  *)
(* URLError, TimeoutError), or raises any other exception.  The site is    *)
(* either a linear document of crawl.doc pages (page k at /1/1/k links     *)
(* back to k-1 and forward to k+1, the last page has no forward link) or,  *)
(* with crawl.doc = 0, arbitrary: every fetch may return any page of       *)
(* FreePages.                                                              *)
(*                                                                         *)
(* History kept beside the program's variables:                            *)
(*   fetched      the PageRef of every fetch_html call, in order,          *)
(*   outcomes     the outcome of every attempt of the current fetch_html   *)
(*                call,                                                    *)
(*   markup       the markup returned by the successful attempt,           *)
(*   failed       whether any attempt of the run has failed,               *)
(*   exit_reason  how the loop of crawl_book was left,                     *)
(*   raised       the exception that ended the run, if any.                *)
(***************************************************************************)
NoEstimate == -1
NoExit == -1

DigitChar(k) ==
    CASE k = 0 -> "0" [] k = 1 -> "1" [] k = 2 -> "2" [] k = 3 -> "3"
      [] k = 4 -> "4" [] k = 5 -> "5" [] k = 6 -> "6" [] k = 7 -> "7"
      [] k = 8 -> "8" [] k = 9 -> "9"

\* The markup of a page, as its event stream: its anchors, then the reading
\* region with its text (or the text alone when the page has no region).
PageEvents(hrefs, has_reader, text) ==
    [i \in 1..Len(hrefs) |-> StartEv("a", << <<"href", hrefs[i]>> >>)]
      \o (IF has_reader
          THEN <<EvReaderOpen, StartEv("p", <<>>), TextEv(text), EndEv("p"),
                 EndEv("td")>>
          ELSE <<TextEv(text)>>)

LinearPath(k) == <<"/", "1", "/", "1", "/", DigitChar(k)>>

\* Page k of the linear document of n pages.
LinearPage(k, n) ==
    PageEvents((IF k > 1 THEN <<LinearPath(k - 1)>> ELSE <<>>)
                 \o (IF k < n THEN <<LinearPath(k + 1)>> ELSE <<>>),
               TRUE, <<"p", DigitChar(k)>>)

CrawlHrefs ==
    {<<"/", "1", "/", "1", "/", "2">>,
     <<"3", "/">>,
     <<"/", "1", "/", "2", "/", "0">>,
     <<"/", "1", "/", "1", "/", "1">>,
     <<"/", "2", "/", "1", "/", "9">>,
     <<"/", "/", "[", "s", "/", "1", "/", "1", "/", "5">>}

FreePages ==
    {PageEvents(h, r, TxtOne) :
        h \in {<<>>} \cup {<<a>> : a \in CrawlHrefs}
                \cup {<<a, b>> : a \in CrawlHrefs, b \in CrawlHrefs},
        r \in BOOLEAN}

\* What the site serves for the URL.
Served(doc, ref) ==
    IF doc = 0 THEN FreePages
    ELSE IF ref.book_id = 1 /\ ref.volume = 1 /\ ref.page \in 1..doc
         THEN {LinearPage(ref.page, doc)}
         ELSE {PageEvents(<<>>, FALSE, TxtOne)}

CrawlStartUrls == {HttpS \o <<"/", "1", "/", "1", "/", "1", "/", "?", "q">>}

InitCrawl ==
    /\ \E u \in CrawlStartUrls, m \in 1..MaxPagesCap, r \in 1..MaxRetries,
          q \in BOOLEAN, d \in 0..MaxDoc :
          crawl = [pc |-> "start", start_url |-> u, max_pages |-> m,
                   retries |-> r, quiet |-> q, doc |-> d,
                   current_url |-> <<>>, start_ref |-> NoRef,
                   current_ref |-> NoRef,
                   estimated_total_pages |-> NoEstimate,
                   visited |-> {}, pages |-> <<>>, i |-> 0, attempt |-> 0,
                   html |-> <<>>, cap_reported |-> FALSE, writes |-> 0,
                   exit_code |-> NoExit,
                   fetched |-> <<>>, outcomes |-> <<>>, markup |-> <<>>,
                   failed |-> FALSE, exit_reason |-> "none", raised |-> "none"]
    /\ url_in = <<>>
    /\ url_other = <<>>
    /\ url_out = <<>>
    /\ pg = <<>>
    /\ parser = <<>>
    /\ fed = <<>>

\* main, lines 534-536: an exception of crawl_book or write_output
Raise(c, what) == [c EXCEPT !.pc = "exit", !.exit_code = 1, !.raised = what]

\* crawl_book, lines 380-384
CrawlStartOf(c) ==
    IF canonical_url(c.start_url) = ValueError
    THEN Raise(c, "ValueError")
    ELSE IF parse_page_ref(canonical_url(c.start_url)) = NoRef
    THEN [Raise(c, "ValueError") EXCEPT
            !.current_url = canonical_url(c.start_url)]
    ELSE [c EXCEPT !.pc = "iter",
                   !.current_url = canonical_url(c.start_url),
                   !.start_ref = parse_page_ref(canonical_url(c.start_url))]

CrawlStart ==
    /\ crawl.pc = "start"
    /\ crawl' = CrawlStartOf(crawl)
    /\ UNCHANGED <<url_in, url_other, url_out, pg, parser, fed>>

\* A variant of the loop head that runs one iteration more than max_pages.
LoopTopOf_one_more(c) ==
    IF c.i >= c.max_pages + 1
    THEN [c EXCEPT !.pc = "after_loop", !.exit_reason = "max_pages"]
    ELSE IF parse_page_ref(c.current_url) \in c.visited
    THEN [c EXCEPT !.pc = "after_loop", !.exit_reason = "visited",
                   !.i = @ + 1,
                   !.current_ref = parse_page_ref(c.current_url)]
    ELSE [c EXCEPT !.pc = "fetch",
                   !.i = @ + 1,
                   !.current_ref = parse_page_ref(c.current_url),
                   !.visited = @ \cup {parse_page_ref(c.current_url)},
                   !.attempt = 1,
                   !.outcomes = <<>>,
                   !.markup = <<>>,
                   !.fetched = Append(@, parse_page_ref(c.current_url))]

\* crawl_book, lines 386-392: the head of the for loop up to the call of
\* fetch_html (whose first attempt is then due).
LoopTopOf(c) ==
    IF c.i >= c.max_pages
    THEN [c EXCEPT !.pc = "after_loop", !.exit_reason = "max_pages"]
    ELSE IF parse_page_ref(c.current_url) \in c.visited
    THEN [c EXCEPT !.pc = "after_loop", !.exit_reason = "visited",
                   !.i = @ + 1,
                   !.current_ref = parse_page_ref(c.current_url)]
    ELSE [c EXCEPT !.pc = "fetch",
                   !.i = @ + 1,
                   !.current_ref = parse_page_ref(c.current_url),
                   !.visited = @ \cup {parse_page_ref(c.current_url)},
                   !.attempt = 1,
                   !.outcomes = <<>>,
                   !.markup = <<>>,
                   !.fetched = Append(@, parse_page_ref(c.current_url))]

LoopTop ==
    /\ crawl.pc = "iter"
    /\ crawl' = LoopTopOf(crawl)
    /\ UNCHANGED <<url_in, url_other, url_out, pg, parser, fed>>

\* fetch_html, lines 99-106: the attempt succeeds and the markup is returned
\* (with the utf-8 replacement decoding when the charset is unknown).
FetchReturnsOf(c, html) ==
    [c EXCEPT !.pc = "process", !.html = html,
              !.outcomes = Append(@, "ok"), !.markup = html]

FetchReturns ==
    /\ crawl.pc = "fetch"
    /\ \E html \in Served(crawl.doc, crawl.current_ref) :
          crawl' = FetchReturnsOf(crawl, html)
    /\ UNCHANGED <<url_in, url_other, url_out, pg, parser, fed>>

\* fetch_html, lines 107-111: the attempt fails with HTTPError, URLError or
\* TimeoutError; the next attempt follows after the backoff, or RuntimeError
\* is raised when this was the last one.
FetchFailsOf(c) ==
    IF c.attempt < c.retries
    THEN [c EXCEPT !.attempt = @ + 1, !.outcomes = Append(@, "transient"),
                   !.failed = TRUE]
    ELSE [Raise(c, "RuntimeError") EXCEPT !.outcomes = Append(@, "transient"),
                                          !.failed = TRUE]

FetchFails ==
    /\ crawl.pc = "fetch"
    /\ crawl' = FetchFailsOf(crawl)
    /\ UNCHANGED <<url_in, url_other, url_out, pg, parser, fed>>

\* fetch_html, lines 100-104: an exception the except clause does not list
\* (a connection reset or an incomplete read in response.read(), undecodable
\* bytes in raw.decode(charset)) leaves fetch_html at once.
FetchRaisesOf(c) ==
    [Raise(c, "OtherError") EXCEPT !.outcomes = Append(@, "other"),
                                   !.failed = TRUE]

FetchRaises ==
    /\ crawl.pc = "fetch"
    /\ crawl' = FetchRaisesOf(crawl)
    /\ UNCHANGED <<url_in, url_other, url_out, pg, parser, fed>>

\* A variant that keeps an estimate the number of fetched pages has passed.
EstimateAfter_never_discarded(c, discovered_last_page, npages) ==
    IF /\ discovered_last_page # NoPage
       /\ c.current_ref.volume = c.start_ref.volume
       /\ discovered_last_page >= c.start_ref.page
    THEN discovered_last_page - c.start_ref.page + 1
    ELSE c.estimated_total_pages

\* crawl_book, lines 401-414: the estimate of the total page count
EstimateAfter(c, discovered_last_page, npages) ==
    IF /\ discovered_last_page # NoPage
       /\ c.current_ref.volume = c.start_ref.volume
       /\ discovered_last_page >= c.start_ref.page
    THEN (IF npages > discovered_last_page - c.start_ref.page + 1
          THEN NoEstimate
          ELSE discovered_last_page - c.start_ref.page + 1)
    ELSE (IF c.estimated_total_pages # NoEstimate /\ npages > c.estimated_total_pages
          THEN NoEstimate
          ELSE c.estimated_total_pages)

\* A variant that never follows the forward link.
AdvanceOf_never_follows(c, next_url) ==
    [c EXCEPT !.pc = "after_loop", !.exit_reason = "no_next"]

\* crawl_book, lines 426-436: the next URL, or the end of the loop
AdvanceOf(c, next_url) ==
    IF next_url = None \/ next_url = <<>>
    THEN [c EXCEPT !.pc = "after_loop", !.exit_reason = "no_next"]
    ELSE IF parse_page_ref(next_url) \in c.visited
    THEN [c EXCEPT !.pc = "after_loop", !.exit_reason = "next_visited"]
    ELSE [c EXCEPT !.pc = "iter", !.current_url = next_url]

\* A variant that follows the first link of the page, forward or not.
AcceptPageOf_first_link(c, p) ==
    IF LinkRaises(c.current_url, p.hrefs)
    THEN [Raise(c, "ValueError") EXCEPT
            !.pages = Append(@, [ref |-> c.current_ref, text |-> reader_text(p)]),
            !.html = <<>>]
    ELSE AdvanceOf(
        [c EXCEPT
            !.pages = Append(@, [ref |-> c.current_ref, text |-> reader_text(p)]),
            !.html = <<>>,
            !.estimated_total_pages =
                EstimateAfter(c,
                    discover_last_page_in_volume(c.current_url, c.current_ref,
                                                 p.hrefs),
                    Len(c.pages) + 1)],
        IF p.hrefs = <<>> THEN None ELSE Joined(c.current_url, p.hrefs[1]))

\* crawl_book, lines 400-436, for a page whose reading region was found: the
\* page is appended, then discover_last_page_in_volume (line 401) raises
\* ValueError out of crawl_book when a link cannot be joined, and otherwise
\* the estimate is updated and the loop advances.
AcceptPageOf(c, p) ==
    IF LinkRaises(c.current_url, p.hrefs)
    THEN [Raise(c, "ValueError") EXCEPT
            !.pages = Append(@, [ref |-> c.current_ref, text |-> reader_text(p)]),
            !.html = <<>>]
    ELSE AdvanceOf(
        [c EXCEPT
            !.pages = Append(@, [ref |-> c.current_ref, text |-> reader_text(p)]),
            !.html = <<>>,
            !.estimated_total_pages =
                EstimateAfter(c,
                    discover_last_page_in_volume(c.current_url, c.current_ref,
                                                 p.hrefs),
                    Len(c.pages) + 1)],
        find_next_page_url(c.current_url, c.current_ref, p.hrefs))

\* A variant that keeps a page without a reading region, with an empty text.
ProcessPageOf_keep_going(c, p) == AcceptPageOf(c, p)

\* crawl_book, lines 393-436: the rest of the loop body
ProcessPageOf(c, p) ==
    IF ~p.found_reader
    THEN Raise(c, "ReaderNotFound")
    ELSE AcceptPageOf(c, p)

ProcessPage ==
    /\ crawl.pc = "process"
    /\ crawl' = ProcessPageOf(crawl, FeedAll(NewParser, crawl.html))
    /\ UNCHANGED <<url_in, url_other, url_out, pg, parser, fed>>

\* crawl_book, lines 438-447: after the loop
AfterLoopOf(c) ==
    [c EXCEPT !.pc = "write",
              !.cap_reported = Len(c.pages) >= c.max_pages /\ ~c.quiet]

AfterLoop ==
    /\ crawl.pc = "after_loop"
    /\ crawl' = AfterLoopOf(crawl)
    /\ UNCHANGED <<url_in, url_other, url_out, pg, parser, fed>>

\* main, lines 533 and 538-540: write_output succeeds
WriteOutput ==
    /\ crawl.pc = "write"
    /\ crawl' = [crawl EXCEPT !.pc = "exit", !.writes = @ + 1, !.exit_code = 0]
    /\ UNCHANGED <<url_in, url_other, url_out, pg, parser, fed>>

\* main, lines 533-536: write_output raises (the file cannot be opened or
\* written)
WriteFails ==
    /\ crawl.pc = "write"
    /\ crawl' = Raise(crawl, "WriteError")
    /\ UNCHANGED <<url_in, url_other, url_out, pg, parser, fed>>

NextCrawl ==
    \/ CrawlStart
    \/ LoopTop
    \/ FetchReturns
    \/ FetchFails
    \/ FetchRaises
    \/ ProcessPage
    \/ AfterLoop
    \/ WriteOutput
    \/ WriteFails

SpecCrawl == InitCrawl /\ [][NextCrawl]_vars

CrawlErrors == {"ValueError", "RuntimeError", "OtherError", "ReaderNotFound"}

LoopLeft == crawl.exit_reason # "none"

\* The result of a crawl over the whole linear document of n pages.
LinearResult(n) ==
    [k \in 1..n |-> [ref |-> [book_id |-> 1, volume |-> 1, page |-> k],
                     text |-> <<"p", DigitChar(k)>>]]

\* C6: a crawl over a linear document of N pages, with a transport that
\* never fails and max_pages greater than N, raises nothing, leaves the loop
\* through the no-next-link exit (not the max-page cap) and returns exactly
\* the N entries (PageRef, text) of pages 1, 2, ..., N in that order.
C6_LinearDocument ==
    (crawl.doc >= 1 /\ crawl.max_pages > crawl.doc /\ ~crawl.failed)
        => /\ crawl.raised \notin CrawlErrors
           /\ LoopLeft => /\ crawl.exit_reason = "no_next"
                          /\ crawl.pages = LinearResult(crawl.doc)
                          /\ ~crawl.cap_reported

C6_Witness ==
    /\ crawl.doc = 3
    /\ crawl.max_pages = 4
    /\ ~crawl.failed
    /\ crawl.pc = "exit"
    /\ crawl.exit_code = 0
    /\ Len(crawl.pages) = 3

AllAttemptsFailed ==
    /\ Len(crawl.outcomes) = crawl.retries
    /\ \A k \in 1..Len(crawl.outcomes) : crawl.outcomes[k] # "ok"

AbortedByFetch == crawl.raised \in {"RuntimeError", "OtherError"}

\* C7: with retry count N a page fetch makes at most N attempts and returns
\* the markup of the first successful attempt; the run is aborted by the
\* fetch if and only if all N attempts fail; after two failures and a
\* success with N >= 3 the fetch is complete and the run continues.
C7_RetryContract ==
    /\ Len(crawl.outcomes) <= crawl.retries
    /\ crawl.pc = "process"
          => /\ crawl.outcomes[Len(crawl.outcomes)] = "ok"
             /\ \A k \in 1..(Len(crawl.outcomes) - 1) : crawl.outcomes[k] # "ok"
             /\ crawl.html = crawl.markup
    /\ AbortedByFetch <=> AllAttemptsFailed
    /\ crawl.outcomes = <<"transient", "transient", "ok">>
          => crawl.raised \notin {"RuntimeError", "OtherError"}

ExhaustsRetries ==
    /\ crawl.pc = "fetch"
    /\ crawl.attempt = crawl.retries
    /\ crawl'.outcomes = Append(crawl.outcomes, "transient")

ReaderNeverEntered ==
    /\ crawl.pc = "process"
    /\ ~FeedAll(NewParser, crawl.html).found_reader

\* C8: when the fetch of a page exhausts its retries, or the extraction of a
\* page never enters the reading region, the run fails at that step: the
\* program exits with code 1, nothing has been or will be written, and no
\* step follows the exit, so no later page is fetched.  The output is
\* written at most once, and only after the crawl has returned its pages.
C8_FailureIsFatal ==
    /\ [][(ExhaustsRetries \/ ReaderNeverEntered)
             => /\ crawl'.pc = "exit"
                /\ crawl'.exit_code = 1
                /\ crawl'.writes = 0
                /\ crawl'.fetched = crawl.fetched]_vars
    /\ [][crawl.pc # "exit"]_vars
    /\ [](/\ crawl.writes <= 1
          /\ crawl.writes = 1 => /\ crawl.raised = "none"
                                 /\ LoopLeft
                                 /\ crawl.exit_code = 0
          /\ crawl.exit_code = 1 => crawl.writes = 0)

C8_Witness ==
    /\ crawl.pc = "exit"
    /\ crawl.raised = "ReaderNotFound"
    /\ crawl.exit_code = 1
    /\ crawl.writes = 0
    /\ Len(crawl.pages) >= 1
    /\ Len(crawl.fetched) < crawl.max_pages

\* C9: the number of pages fetched and the length of the result never exceed
\* max_pages, and the result lists the fetched pages in visit order; when
\* the loop ends by the cap, with an unvisited next page at hand, the crawl
\* has raised nothing and returns exactly max_pages entries.
C9_MaxPagesBound ==
    /\ Len(crawl.fetched) <= crawl.max_pages
    /\ Len(crawl.pages) <= crawl.max_pages
    /\ Len(crawl.pages) <= Len(crawl.fetched)
    /\ \A k \in 1..Len(crawl.pages) : crawl.pages[k].ref = crawl.fetched[k]
    /\ crawl.exit_reason = "max_pages"
          => /\ Len(crawl.pages) = crawl.max_pages
             /\ crawl.raised \notin CrawlErrors
             /\ parse_page_ref(crawl.current_url) \notin crawl.visited
             /\ crawl.pc = "exit" /\ crawl.raised = "none" => crawl.exit_code = 0

C9_Witness ==
    /\ crawl.exit_reason = "max_pages"
    /\ crawl.pc = "exit"
    /\ crawl.exit_code = 0
    /\ crawl.max_pages >= 2
    /\ Len(crawl.pages) = crawl.max_pages
    /\ parse_page_ref(crawl.current_url) \notin crawl.visited

\* The iteration was cut short by the ValueError of line 401, after the page
\* was appended: it has no end.
IterationCutShort == crawl.raised = "ValueError" /\ crawl.pages # <<>>

\* The step appends the page just parsed to the result and runs the
\* iteration to its end.
PageAccepted ==
    /\ crawl.pc = "process"
    /\ Len(crawl'.pages) = Len(crawl.pages) + 1
    /\ crawl'.raised = "none"

\* What discover_last_page_in_volume yields for the page just fetched.
DiscoveredLastPage ==
    discover_last_page_in_volume(crawl.current_url, crawl.current_ref,
                                 FeedAll(NewParser, crawl.html).hrefs)

EstimateApplies ==
    /\ DiscoveredLastPage # NoPage
    /\ crawl.current_ref.volume = crawl.start_ref.volume
    /\ DiscoveredLastPage >= crawl.start_ref.page

\* The estimate before the test of line 413.
EstimateCandidate ==
    IF EstimateApplies
    THEN DiscoveredLastPage - crawl.start_ref.page + 1
    ELSE crawl.estimated_total_pages

C18_CapReportedIffCapEnded ==
    (LoopLeft /\ crawl.pc \in {"write", "exit"} /\ ~crawl.quiet)
        => (crawl.cap_reported <=> crawl.exit_reason = "max_pages")

SeqKeyIncreasing(refs) ==
    \A k \in 1..(Len(refs) - 1) : KeyLess(RefKey(refs[k]), RefKey(refs[k + 1]))

\* C19: the visited set only grows; the PageRefs of the result are pairwise
\* distinct, carry the start URL's book_id and increase strictly in
\* (volume, page) order; the two visited-set guards never end the loop and
\* no page is fetched twice.
C19_VisitsStrictlyForward ==
    /\ [][crawl.visited \subseteq crawl'.visited]_vars
    /\ [](/\ \A j, k \in 1..Len(crawl.pages) :
                j # k => crawl.pages[j].ref # crawl.pages[k].ref
          /\ \A k \in 1..Len(crawl.pages) :
                crawl.pages[k].ref.book_id = crawl.start_ref.book_id
          /\ SeqKeyIncreasing([k \in 1..Len(crawl.pages) |-> crawl.pages[k].ref])
          /\ crawl.exit_reason \notin {"visited", "next_visited"}
          /\ SeqKeyIncreasing(crawl.fetched)
          /\ crawl.visited = {crawl.fetched[k] : k \in 1..Len(crawl.fetched)})

\* The three pages of the linear document were fetched, the second and the
\* third carrying a link back to a visited page.
C19_Witness ==
    /\ Len(crawl.pages) = 3
    /\ crawl.doc = 3
    /\ crawl.pc = "exit"
    /\ crawl.exit_code = 0
    /\ Cardinality(crawl.visited) = 3

(***************************************************************************)
(* Traced passes.  As an extraction pass, with this history in fed:        *)
(*   n       the number of events fed,                                     *)
(*   last    the event fed last (NoEvent before the first),                *)
(*   closes  the number of block-element end tags fed in a row up to now,  *)
(*           each handled inside the region and outside suppression,       *)
(*   pre     whether a pre start tag was fed,                              *)
(*   limit   the number of events the pass may feed.                       *)
(***************************************************************************)
NoEvent == [kind |-> "none", tag |-> "", attrs |-> <<>>, data |-> <<>>]

InitTrace(limit) ==
    /\ parser = NewParser
    /\ fed = [n |-> 0, last |-> NoEvent, closes |-> 0, pre |-> FALSE,
              limit |-> limit]
    /\ url_in = <<>>
    /\ url_other = <<>>
    /\ url_out = <<>>
    /\ pg = <<>>
    /\ crawl = <<>>

FeedTraced(ev) ==
    /\ fed.n < fed.limit
    /\ parser' = HandleEvent(parser, ev)
    /\ fed' = [fed EXCEPT
                 !.n = @ + 1,
                 !.last = ev,
                 !.closes = IF /\ ev.kind = "end"
                               /\ ev.tag \in BLOCK_END_TAGS
                               /\ Unsuppressed(parser)
                            THEN (IF @ < 2 THEN @ + 1 ELSE @)
                            ELSE 0,
                 !.pre = @ \/ (ev.kind = "start" /\ ev.tag = "pre")]
    /\ UNCHANGED <<url_in, url_other, url_out, pg, crawl>>

TracedStartTag(events) == \E ev \in events : ev.kind = "start" /\ FeedTraced(ev)
TracedEndTag(events) == \E ev \in events : ev.kind = "end" /\ FeedTraced(ev)
TracedData(events) == \E ev \in events : ev.kind = "text" /\ FeedTraced(ev)

(***************************************************************************)
(* SpecSuppress: every stream of region, nested td, overlay, muted,        *)
(* footnote, break and text events, balanced or not.                       *)
(***************************************************************************)
SuppressEvents ==
    {EvReaderOpen,
     StartEv("td", <<>>),
     EndEv("td"),
     StartEv("div", << <<"class", ClsStickyMenue>> >>),
     StartEv("div", << <<"class", ClsFootnote>> >>),
     EndEv("div"),
     StartEv("script", <<>>),
     EndEv("script"),
     StartEv("br", <<>>),
     StartEv("pre", <<>>),
     StartEv("p", << <<"class", ClsKalamateKhas>> >>),
     StartEv("a", << <<"name", ValFtn1>> >>),
     TextEv(TxtOne)}

InitSuppress == InitTrace(MaxSuppressEvents)

NextSuppress ==
    \/ TracedStartTag(SuppressEvents)
    \/ TracedEndTag(SuppressEvents)
    \/ TracedData(SuppressEvents)

SpecSuppress == InitSuppress /\ [][NextSuppress]_vars

Suppressed(p) == p.sticky_depth > 0 \/ p.muted_depth > 0

FootnoteStateUnchanged ==
    /\ parser'.footnote_depth = parser.footnote_depth
    /\ parser'.in_footnote_section = parser.in_footnote_section
    /\ parser'.footnote_separator_emitted = parser.footnote_separator_emitted

\* C11 as stated: while the sticky-menue counter or the muted counter is
\* positive, no event changes the buffer, the footnote depth, the
\* in-footnote-section flag, the separator-emitted flag or the preformatted
\* depth.
C11_SuppressedChangesNothing ==
    [][Suppressed(parser) =>
          /\ parser'.parts = parser.parts
          /\ parser'.pre_depth = parser.pre_depth
          /\ FootnoteStateUnchanged]_vars

\* C11 amended: while the sticky-menue counter or the muted counter is
\* positive, no event changes the buffer or the preformatted depth, so the
\* suppressed subtree contributes no text, newline, heading marker or
\* separator; the footnote depth and the two footnote flags change only at
\* a td end tag that closes the reading region, which resets them.
C11_SuppressedKeepsBuffer ==
    [][Suppressed(parser) =>
          /\ parser'.parts = parser.parts
          /\ parser'.pre_depth = parser.pre_depth
          /\ \/ FootnoteStateUnchanged
             \/ /\ fed'.last = EndEv("td")
                /\ parser.in_reader
                /\ ~parser'.in_reader
                /\ parser'.footnote_depth = 0
                /\ ~parser'.in_footnote_section
                /\ ~parser'.footnote_separator_emitted]_vars

\* Text was fed inside a sticky-menue overlay that follows text and a
\* footnote element of the region.
C11_Witness ==
    /\ fed.last = TextEv(TxtOne)
    /\ parser.in_reader
    /\ parser.sticky_depth = 1
    /\ parser.footnote_depth = 1
    /\ parser.parts = <<TxtOne>>

\* C14: once an overlay or a muted element is open, its suppression counter
\* is incremented only by start tags of the same kind (a div for the
\* overlay, a script, style or noscript for the muted element).
C14_SameKindIncrements ==
    [][/\ (parser.sticky_depth > 0 /\ parser'.sticky_depth > parser.sticky_depth)
            => (fed'.last.kind = "start" /\ fed'.last.tag = "div")
       /\ (parser.muted_depth > 0 /\ parser'.muted_depth > parser.muted_depth)
            => (fed'.last.kind = "start" /\ fed'.last.tag \in MUTED_TAGS)]_vars

IsTdStart(ev) == ev.kind = "start" /\ ev.tag = "td"
IsTdEnd(ev) == ev.kind = "end" /\ ev.tag = "td"

\* C16: no event outside the reading region changes the buffer; the region
\* is entered only by a td start tag whose class list contains
\* book-page-show; inside it every td start tag raises the depth counter and
\* every td end tag lowers it, and the region closes exactly at the td end
\* tag that brings the counter to zero; no other event moves the gate.
C16_RegionGate ==
    /\ [](parser.in_reader <=> parser.reader_td_depth > 0)
    /\ [][~parser.in_reader =>
             /\ parser'.parts = parser.parts
             /\ parser'.in_reader
                   => /\ IsTdStart(fed'.last)
                      /\ has_class(AttrValue(fed'.last.attrs, "class"), ClsBookPageShow)
                      /\ parser'.reader_td_depth = 1]_vars
    /\ [][parser.in_reader =>
             /\ IsTdStart(fed'.last)
                   => /\ parser'.in_reader
                      /\ parser'.reader_td_depth = parser.reader_td_depth + 1
             /\ IsTdEnd(fed'.last)
                   => /\ parser'.reader_td_depth = parser.reader_td_depth - 1
                      /\ parser'.in_reader <=> parser.reader_td_depth > 1
             /\ (~IsTdStart(fed'.last) /\ ~IsTdEnd(fed'.last))
                   => /\ parser'.in_reader
                      /\ parser'.reader_td_depth = parser.reader_td_depth]_vars

\* Text was fed after the region, which held text, was closed.
C16_Witness ==
    /\ fed.last = TextEv(TxtOne)
    /\ fed.n >= 4
    /\ ~parser.in_reader
    /\ parser.found_reader
    /\ parser.parts = <<TxtOne>>

(***************************************************************************)
(* SpecBuffer: every stream of block, forced-break, pre, heading,          *)
(* footnote-anchor and text events, with texts that carry leading,         *)
(* trailing and repeated whitespace.                                       *)
(***************************************************************************)
TxtNewline == <<"\n">>
TxtA == <<"a">>
TxtSpaceASpace == <<" ", "a", " ">>
TxtTwoSpacesA == <<" ", " ", "a">>
TxtTab == <<"\t">>

BufferEvents ==
    {EvReaderOpen,
     StartEv("p", << <<"class", ClsKalamateKhas>> >>),
     EndEv("p"),
     EndEv("div"),
     StartEv("br", <<>>),
     StartEv("a", << <<"name", ValFtn1>>, <<"class", ClsFootnote>> >>),
     StartEv("pre", <<>>),
     EndEv("pre"),
     TextEv(TxtNewline),
     TextEv(TxtA),
     TextEv(TxtSpaceASpace),
     TextEv(TxtTwoSpacesA),
     TextEv(TxtTab)}

InitBuffer == InitTrace(MaxBufferEvents)

NextBuffer ==
    \/ TracedStartTag(BufferEvents)
    \/ TracedEndTag(BufferEvents)
    \/ TracedData(BufferEvents)

SpecBuffer == InitBuffer /\ [][NextBuffer]_vars

WsOnly(fragment) == \A i \in 1..Len(fragment) : fragment[i] \in Whitespace

\* The places where two whitespace-only fragments are adjacent.
WsPairs(parts) ==
    {k \in 1..(Len(parts) - 1) : WsOnly(parts[k]) /\ WsOnly(parts[k + 1])}

IsForcedBreak(ev) == ev.kind = "start" /\ ev.tag \in FORCED_BREAK_TAGS

\* C12 as stated: the buffer never holds two consecutive fragments that both
\* consist only of whitespace and newline characters, whether the newlines
\* come from block closes or from forced breaks.
C12_NoAdjacentWhitespace == WsPairs(parser.parts) = {}

\* The last fragment is whitespace-only and, once its trailing spaces are
\* stripped, neither empty nor ended by a newline (a tab kept from
\* preformatted text): the newline of a block close or of the footnote
\* separator, and collapsed text, are appended right after it.
EndsInKeptWhitespace(parts) ==
    /\ parts # <<>>
    /\ WsOnly(parts[Len(parts)])
    /\ RStrip(parts[Len(parts)], " ") # <<>>
    /\ ~EndsWith(RStrip(parts[Len(parts)], " "), "\n")

\* C12 amended: two adjacent whitespace-only fragments arise only where a
\* forced break (br, hr) appends "\n", where text is appended while the
\* preformatted counter is positive, or right after a whitespace-only
\* fragment of preformatted text that does not end in a newline; a block
\* close, the footnote separator and collapsed text add such a pair in the
\* last case only, and in a stream without pre every such pair is a run of
\* "\n" fragments.
C12_AdjacentWhitespaceSources ==
    /\ [][Cardinality(WsPairs(parser'.parts)) > Cardinality(WsPairs(parser.parts))
             => \/ IsForcedBreak(fed'.last)
                \/ fed'.last.kind = "text" /\ parser.pre_depth > 0
                \/ fed.pre /\ EndsInKeptWhitespace(parser.parts)]_vars
    /\ [](~fed.pre => \A k \in WsPairs(parser.parts) :
                         /\ parser.parts[k] = NewlineFragment
                         /\ parser.parts[k + 1] = NewlineFragment)

\* A tab of preformatted text, then a block close and a forced break: the
\* block close added the pair ("\t", "\n"), the forced break the pair
\* ("\n", "\n").
C12_Witness ==
    /\ fed.pre
    /\ IsForcedBreak(fed.last)
    /\ parser.parts = <<TxtTab, NewlineFragment, NewlineFragment>>

\* C13: the non-forced newline insertion is idempotent on every buffer, two
\* or more block closes in a row leave the buffer as the first one left it,
\* and a block close never appends a newline to an empty buffer.
C13_BlockCloseIdempotent ==
    /\ [](/\ append_newline(append_newline(parser, FALSE), FALSE)
                = append_newline(parser, FALSE)
          /\ parser.parts = <<>> => append_newline(parser, FALSE).parts = <<>>)
    /\ [][fed'.closes >= 2 => parser'.parts = parser.parts]_vars
    /\ [][(fed'.closes >= 1 /\ parser.parts = <<>>) => parser'.parts = <<>>]_vars

\* Two block closes in a row after text that ended in a space.
C13_Witness ==
    /\ fed.closes = 2
    /\ parser.parts = <<TxtA, <<" ", "a">>, NewlineFragment>>

\* The fragment C15 expects for text appended after a non-empty buffer while
\* the preformatted counter is positive: the text itself, less one leading
\* space when the previous fragment ends in a newline or a space.
PreFragment(parts, text) ==
    IF /\ Head(text) = " "
       /\ \/ EndsWith(parts[Len(parts)], "\n")
          \/ EndsWith(parts[Len(parts)], " ")
    THEN Tail(text)
    ELSE text

\* C15: text appended while the preformatted counter is positive is stored
\* verbatim, less a single leading space when the previous fragment ends in a
\* newline or a space, and dropped only when nothing is left.
C15_PreTrimsOneSpace ==
    [][(/\ fed'.last.kind = "text"
        /\ Unsuppressed(parser)
        /\ parser.pre_depth > 0
        /\ parser.parts # <<>>)
          => parser'.parts =
                IF PreFragment(parser.parts, fed'.last.data) = <<>>
                THEN parser.parts
                ELSE Append(parser.parts, PreFragment(parser.parts, fed'.last.data))]_vars

HasPair(s, a, b) == \E i \in 1..(Len(s) - 1) : s[i] = a /\ s[i + 1] = b

\* The step inserts a newline fragment or the footnote separator.
Inserted ==
    /\ parser'.parts # parser.parts
    /\ parser'.parts # <<>>
    /\ parser'.parts[Len(parser'.parts)] \in {NewlineFragment, SeparatorFragment}
    /\ fed'.last.kind # "text"

\* C20: in a stream without pre, after every event the concatenated buffer
\* does not begin with a space, has no two spaces in a row and no space
\* right after a newline; right after a newline or separator insertion it
\* has no space right before a newline either.
C20_NormalizedSpaces ==
    /\ [](~fed.pre =>
            /\ ~StartsWith(Concat(parser.parts), <<" ">>)
            /\ ~HasPair(Concat(parser.parts), " ", " ")
            /\ ~HasPair(Concat(parser.parts), "\n", " "))
    /\ [][(~fed'.pre /\ Inserted)
             => ~HasPair(Concat(parser'.parts), " ", "\n")]_vars

\* The separator was inserted after text that ended in a space, and text
\* with a leading space followed it.
C20_Witness ==
    /\ ~fed.pre
    /\ parser.parts = <<TxtA, <<" ", "a">>, NewlineFragment, SeparatorFragment,
                        <<"a", " ">>>>

====
